---- MODULE Spec2Model ----
(***************************************************************************)
(* Resume Ranker: the two front ends of the repository, the Flask route    *)
(* analyze() of app.py and the "Rank Resumes" handler of streamlit.py.     *)
(* Both drive, for each uploaded file, text extraction, one LLM call, the  *)
(* cleaning and parsing of the answer, the backfill of the record, and     *)
(* finally the ranking of the collected records.                           *)
(*                                                                         *)
(* A text is a sequence of chunks, each a character, or a word that the   *)
(* code only ever handles whole (".pdf", "Candidate Name", "N/A").  A      *)
(* model answer is a sequence of tokens: "{" and "}", a commentary         *)
(* character "c", a blank " ", the Markdown fence markers "FENCEJSON"      *)
(* (three backticks and json) and "FENCE" (three backticks), the JSON      *)
(* texts "42", "null" and "[1]", and "B", the members of a JSON object,    *)
(* whose parsed content is the answer's body.                              *)
(***************************************************************************)
EXTENDS Integers, Sequences, FiniteSets

VARIABLES
  frontend,   \* "flask" (app.py) or "streamlit" (streamlit.py)
  jd,         \* the job description of the request
  apiKey,     \* streamlit.py API_KEY: whether a key is configured
  files,      \* the uploaded files, in order
  pc,         \* "submitted", "loop" or "finished"
  idx,        \* the position in files of the loop
  results,    \* the list results
  collected,  \* history: the records in the order of their append
  calls,      \* history: the calls of get_gemini_response
  extracted,  \* history: the positions of the files an extractor has read
  jdWarning,  \* streamlit.py: the "No job description" warning was shown
  outcome     \* what the caller gets

vars == <<frontend, jd, apiKey, files, pc, idx, results, collected,
          calls, extracted, jdWarning, outcome>>

inputs == <<frontend, jd, apiKey, files>>

(***************************************************************************)
(* Bounds of the model.                                                    *)
(***************************************************************************)
MaxFiles == 2

MaxRawLen == 5

MaxPctLen == 3

(***************************************************************************)
(* Values of Python and JSON, tagged by type.                              *)
(***************************************************************************)
Absent == [t |-> "absent"]

None == [t |-> "none"]

PyInt(n) == [t |-> "int", v |-> n]

\* a float with one decimal digit, held in tenths: PyFloat(855) is 85.5
PyFloat(tenths) == [t |-> "float", v |-> tenths]

PyStr(s) == [t |-> "str", v |-> s]

PyBool(b) == [t |-> "bool", v |-> b]

PyList(l) == [t |-> "list", v |-> l]

\* dict.get(key, default) on a record whose missing keys hold Absent
Get(d, key, default) == IF d[key] = Absent THEN default ELSE d[key]

\* Python truth value
Truthy(val) ==
  CASE val.t = "absent" -> FALSE
    [] val.t = "none" -> FALSE
    [] val.t = "int" -> val.v # 0
    [] val.t = "float" -> val.v # 0
    [] val.t = "str" -> val.v # <<>>
    [] val.t = "bool" -> val.v
    [] val.t = "list" -> val.v # <<>>

(***************************************************************************)
(* Strings.                                                                *)
(***************************************************************************)
Digits == {"0", "1", "2", "3", "4", "5", "6", "7", "8", "9"}

Whitespace == {" ", "\n"}

DigitVal(c) ==
  CASE c = "0" -> 0 [] c = "1" -> 1 [] c = "2" -> 2 [] c = "3" -> 3
    [] c = "4" -> 4 [] c = "5" -> 5 [] c = "6" -> 6 [] c = "7" -> 7
    [] c = "8" -> 8 [] c = "9" -> 9

DigitChar(n) == <<"0", "1", "2", "3", "4", "5", "6", "7", "8", "9">>[n + 1]

RECURSIVE Remove(_, _)
\* s.replace(c, "") for a single character or token c
Remove(s, c) ==
  IF s = <<>> THEN <<>>
  ELSE IF Head(s) = c THEN Remove(Tail(s), c)
  ELSE <<Head(s)>> \o Remove(Tail(s), c)

RECURSIVE LStrip(_)
LStrip(s) ==
  IF s # <<>> /\ Head(s) \in Whitespace THEN LStrip(Tail(s)) ELSE s

RECURSIVE RStrip(_)
RStrip(s) ==
  IF s # <<>> /\ s[Len(s)] \in Whitespace
  THEN RStrip(SubSeq(s, 1, Len(s) - 1)) ELSE s

\* str.strip()
Strip(s) == RStrip(LStrip(s))

LowerChar(c) ==
  CASE c = ".PDF" -> ".pdf" [] c = ".DOCX" -> ".docx" [] c = ".TXT" -> ".txt"
    [] c = ".DOC" -> ".doc" [] c = ".EXE" -> ".exe" [] c = "A" -> "a"
    [] c = "B" -> "b" [] c = "C" -> "c" [] c = "D" -> "d" [] OTHER -> c

\* str.lower()
Lower(s) == [k \in 1..Len(s) |-> LowerChar(s[k])]

\* str.endswith(suffix)
EndsWith(s, suffix) ==
  /\ Len(s) >= Len(suffix)
  /\ SubSeq(s, Len(s) - Len(suffix) + 1, Len(s)) = suffix

\* str.isdigit(): non-empty and every character a digit
IsDigit(s) == s # <<>> /\ \A k \in 1..Len(s) : s[k] \in Digits

RECURSIVE IntOfDigits(_)
\* int(s) for a string of digits
IntOfDigits(s) ==
  IF s = <<>> THEN 0
  ELSE 10 * IntOfDigits(SubSeq(s, 1, Len(s) - 1)) + DigitVal(s[Len(s)])

RECURSIVE DigitsOfNat(_)
DigitsOfNat(n) ==
  IF n < 10 THEN <<DigitChar(n)>>
  ELSE DigitsOfNat(n \div 10) \o <<DigitChar(n % 10)>>

Abs(n) == IF n < 0 THEN -n ELSE n

RECURSIVE Pow10(_)
Pow10(k) == IF k = 0 THEN 1 ELSE 10 * Pow10(k - 1)

\* str(val)
Str(val) ==
  CASE val.t = "str" -> val.v
    [] val.t = "int" ->
         (IF val.v < 0 THEN <<"-">> ELSE <<>>) \o DigitsOfNat(Abs(val.v))
    [] val.t = "float" ->
         (IF val.v < 0 THEN <<"-">> ELSE <<>>)
           \o DigitsOfNat(Abs(val.v) \div 10) \o <<".">>
           \o <<DigitChar(Abs(val.v) % 10)>>
    [] val.t = "bool" ->
         IF val.v THEN <<"T", "r", "u", "e">> ELSE <<"F", "a", "l", "s", "e">>
    [] val.t = "none" -> <<"N", "o", "n", "e">>
    \* the text of the elements is cut down to a quote
    [] val.t = "list" -> <<"[">> \o (IF val.v = <<>> THEN <<>> ELSE <<"'">>) \o <<"]">>

(***************************************************************************)
(* float(s) and round(f).  A parsed float is held exactly, as num / den    *)
(* with den a power of ten.                                                *)
(***************************************************************************)
\* the position of the first "." of s, or 0
FirstDot(s) ==
  IF \E k \in 1..Len(s) : s[k] = "."
  THEN CHOOSE k \in 1..Len(s) : s[k] = "." /\ \A j \in 1..(k - 1) : s[j] # "."
  ELSE 0

AllDigits(s) == \A k \in 1..Len(s) : s[k] \in Digits

\* float(s): [ok |-> FALSE] stands for ValueError
ParseFloat(s) ==
  LET u == Strip(s)
      signed == u # <<>> /\ Head(u) \in {"-", "+"}
      neg == u # <<>> /\ Head(u) = "-"
      body == IF signed THEN Tail(u) ELSE u
      dot == FirstDot(body)
      whole == IF dot = 0 THEN body ELSE SubSeq(body, 1, dot - 1)
      frac == IF dot = 0 THEN <<>> ELSE SubSeq(body, dot + 1, Len(body))
  IN IF AllDigits(whole) /\ AllDigits(frac) /\ whole \o frac # <<>>
     THEN [ok |-> TRUE,
           num |-> (IF neg THEN -1 ELSE 1) * IntOfDigits(whole \o frac),
           den |-> Pow10(Len(frac))]
     ELSE [ok |-> FALSE]

\* round(num / den): to the nearest integer, a tie to the even one
RoundHalfEven(num, den) ==
  LET a == Abs(num)
      q == a \div den
      r == a % den
      up == 2 * r > den \/ (2 * r = den /\ q % 2 = 1)
      m == IF up THEN q + 1 ELSE q
  IN IF num < 0 THEN -m ELSE m

\* streamlit.py safe_int_percent
safe_int_percent(val) ==
  IF val = None THEN PyInt(0)
  ELSE LET f == ParseFloat(Remove(Strip(Str(val)), "%"))
       IN IF f.ok THEN PyInt(RoundHalfEven(f.num, f.den)) ELSE PyInt(0)

\* app.py: "Ensure Percentage is Integer"
FlaskPercent(data) ==
  LET match_pct == Remove(Str(Get(data, "MatchPercentage", PyStr(<<"0">>))), "%")
  IN IF IsDigit(match_pct) THEN PyInt(IntOfDigits(match_pct)) ELSE PyInt(0)

(***************************************************************************)
(* The model answer: cleaning and json.loads.                              *)
(***************************************************************************)
Keys == {"Name", "Filename", "MatchPercentage", "GlobalMatch", "MarketTier",
         "MatchedKeywords", "MissingKeywords", "Summary"}

EmptyDict == [k \in Keys |-> Absent]

PyDict(d) == [t |-> "dict", v |-> d]

EmptyObjectText == <<"{", "}">>

\* ai_text.replace(FENCEJSON, "").replace(FENCE, "")
StripFences(text) == Remove(Remove(text, "FENCEJSON"), "FENCE")

\* re.search of an opening brace, anything (greedy, DOTALL), a closing brace:
\* from the first "{" to the last "}" after it; [found |-> FALSE] when none
SearchBraces(text) ==
  LET opens == {k \in 1..Len(text) : text[k] = "{"}
      first == CHOOSE k \in opens : \A j \in opens : k <= j
      closes == {k \in 1..Len(text) : text[k] = "}" /\ k > first}
      last == CHOOSE k \in closes : \A j \in closes : j <= k
  IN IF opens = {} \/ closes = {} THEN [found |-> FALSE]
     ELSE [found |-> TRUE, group |-> SubSeq(text, first, last)]

\* a plausible slip: the fences are stripped but the object is not extracted
CleanWithoutExtraction(ai_text) ==
  IF ai_text = <<>> THEN EmptyObjectText ELSE StripFences(ai_text)

\* streamlit.py clean_ai_json
clean_ai_json(ai_text) ==
  IF ai_text = <<>> THEN EmptyObjectText
  ELSE LET cleaned == StripFences(ai_text)
           m == SearchBraces(cleaned)
       IN IF m.found THEN m.group ELSE cleaned

\* app.py: "ROBUST CLEANING"
FlaskClean(ai_response) ==
  LET clean_json == StripFences(ai_response)
      match == SearchBraces(clean_json)
  IN IF match.found THEN match.group ELSE clean_json

\* json.loads(text) of an answer whose "B" stands for the members given by
\* body; [ok |-> FALSE] stands for JSONDecodeError
JsonLoads(text, body) ==
  LET u == Remove(Remove(text, " "), "\n")
  IN CASE u = <<"{", "}">> -> [ok |-> TRUE, val |-> PyDict(EmptyDict)]
       [] u = <<"{", "B", "}">> -> [ok |-> TRUE, val |-> PyDict(body)]
       [] u = <<"42">> -> [ok |-> TRUE, val |-> PyInt(42)]
       [] u = <<"null">> -> [ok |-> TRUE, val |-> None]
       [] u = <<"[1]">> -> [ok |-> TRUE, val |-> PyList(<<PyInt(1)>>)]
       [] OTHER -> [ok |-> FALSE]

(***************************************************************************)
(* Uploaded files and text extraction.  A file has a name, a size in bytes *)
(* and a document: whether the parsing library reads it, and the texts of  *)
(* its pages or paragraphs (a page with no text counts as the empty text,  *)
(* which is what "page.extract_text() or ''" makes of None).               *)
(***************************************************************************)
RECURSIVE Concat(_)
Concat(parts) ==
  IF parts = <<>> THEN <<>> ELSE Head(parts) \o Concat(Tail(parts))

RECURSIVE Join(_, _)
\* sep.join(parts)
Join(sep, parts) ==
  IF parts = <<>> THEN <<>>
  ELSE IF Len(parts) = 1 THEN Head(parts)
  ELSE Head(parts) \o sep \o Join(sep, Tail(parts))

\* app.py extract_text_from_pdf, streamlit.py extract_text_from_pdf_bytes
extract_text_from_pdf(doc) == IF doc.ok THEN Concat(doc.parts) ELSE <<>>

\* streamlit.py extract_text_from_docx_bytes
extract_text_from_docx_bytes(doc) ==
  IF doc.ok THEN Join(<<"\n">>, doc.parts) ELSE <<>>

\* streamlit.py extract_text_from_txt_bytes: decode(errors="ignore")
extract_text_from_txt_bytes(doc) == Concat(doc.parts)

\* streamlit.py: max_size = 10 * 1024 * 1024
max_size == 10 * 1024 * 1024

SupportedSuffixes == {<<".pdf">>, <<".docx">>, <<".txt">>, <<".doc">>}

\* streamlit.py: the chain of lower.endswith(...) tests
StSupported(name) == \E suf \in SupportedSuffixes : EndsWith(Lower(name), suf)

\* streamlit.py: the extractor chosen by the name's suffix
StExtract(uploaded) ==
  LET lower == Lower(uploaded.name)
  IN IF EndsWith(lower, <<".pdf">>) THEN extract_text_from_pdf(uploaded.doc)
     ELSE IF EndsWith(lower, <<".docx">>)
       THEN extract_text_from_docx_bytes(uploaded.doc)
     ELSE IF EndsWith(lower, <<".txt">>)
       THEN extract_text_from_txt_bytes(uploaded.doc)
     ELSE extract_text_from_docx_bytes(uploaded.doc)

\* streamlit.py: "if not text or text.strip() == ''"
StNoText(text) == text = <<>> \/ Strip(text) = <<>>

\* app.py: "if not text"
FlaskNoText(text) == text = <<>>

(***************************************************************************)
(* The LLM call.  An answer of the service is a failure (any exception of  *)
(* generate_content) or a text, with the body its "B" token stands for.    *)
(***************************************************************************)
Failure == [fail |-> TRUE, text |-> <<>>, body |-> EmptyDict]

Answer(text, body) == [fail |-> FALSE, text |-> text, body |-> body]

\* a plausible slip: the except branch returns the empty text
GetGeminiResponseEmptyOnFailure(resp) == IF resp.fail THEN <<>> ELSE resp.text

\* app.py get_gemini_response: the text, or "{}" on any exception
FlaskGetGeminiResponse(resp) ==
  IF resp.fail THEN EmptyObjectText ELSE resp.text

\* streamlit.py get_gemini_response: "{}" without a key or on any exception
StGetGeminiResponse(key, resp) ==
  IF ~key THEN EmptyObjectText
  ELSE IF resp.fail THEN EmptyObjectText
  ELSE resp.text

(***************************************************************************)
(* Normalisation of one answer into a record.  The result is               *)
(* [raised |-> TRUE] when the code raises an exception it does not catch   *)
(* in the loop body, and [raised |-> FALSE, rec |-> the record] otherwise. *)
(***************************************************************************)
ParseErrorFlask ==
  PyStr(<<"Error parsing AI response. View Terminal for details.">>)

ParseErrorSt == PyStr(<<"Error parsing AI response.">>)

CandidateName == PyStr(<<"Candidate Name">>)

NA == PyStr(<<"N/A">>)

\* app.py: the record of the except json.JSONDecodeError branch
FlaskPlaceholder(filename) ==
  [EmptyDict EXCEPT !["Name"] = PyStr(filename),
                    !["MatchPercentage"] = PyInt(0),
                    !["Summary"] = ParseErrorFlask,
                    !["GlobalMatch"] = NA]

\* app.py: "Standardize Name/Filename"
FlaskName(data, filename) ==
  IF data["Name"] = Absent \/ data["Name"] = CandidateName
  THEN [data EXCEPT !["Name"] = PyStr(filename)]
  ELSE data

\* app.py: the loop body from the cleaning to results.append
FlaskNormalize(filename, ai_response, body) ==
  LET clean_json == FlaskClean(ai_response)
      loaded == JsonLoads(clean_json, body)
  IN IF ~loaded.ok
     THEN [raised |-> FALSE, rec |-> FlaskPlaceholder(filename)]
     ELSE IF loaded.val.t # "dict"
     \* "Name" not in data, or data["Name"] = ..., raises TypeError
     THEN [raised |-> TRUE]
     ELSE LET named == FlaskName(loaded.val.v, filename)
              filed == [named EXCEPT !["Filename"] = PyStr(filename)]
          IN [raised |-> FALSE,
              rec |-> [filed EXCEPT !["MatchPercentage"] = FlaskPercent(filed)]]

\* streamlit.py: the record of the except json.JSONDecodeError branch
StPlaceholder(name) ==
  [EmptyDict EXCEPT !["Name"] = PyStr(name),
                    !["MatchPercentage"] = PyInt(0),
                    !["GlobalMatch"] = NA,
                    !["MarketTier"] = PyStr(<<>>),
                    !["MatchedKeywords"] = PyList(<<>>),
                    !["MissingKeywords"] = PyList(<<>>),
                    !["Summary"] = ParseErrorSt]

\* dict.setdefault(key, default)
SetDefault(d, key, default) ==
  IF d[key] = Absent THEN [d EXCEPT ![key] = default] ELSE d

\* streamlit.py: the name and filename backfill
StName(parsed, name) ==
  IF Get(parsed, "Name", None) \in {None, PyStr(<<>>), CandidateName}
  THEN [parsed EXCEPT !["Name"] = PyStr(name)]
  ELSE parsed

\* streamlit.py: the backfill of a parsed answer or of the placeholder
StBackfill(parsed, name) ==
  LET d1 == [StName(parsed, name) EXCEPT !["Filename"] = PyStr(name)]
      d2 == [d1 EXCEPT !["MatchPercentage"] =
                         safe_int_percent(Get(d1, "MatchPercentage", PyInt(0)))]
      d3 == SetDefault(d2, "GlobalMatch", NA)
      d4 == SetDefault(d3, "MarketTier", PyStr(<<>>))
      d5 == SetDefault(d4, "MatchedKeywords", PyList(<<>>))
      d6 == SetDefault(d5, "MissingKeywords", PyList(<<>>))
  IN SetDefault(d6, "Summary", PyStr(<<>>))

\* streamlit.py: the loop body from clean_ai_json to results.append
StNormalize(name, ai_raw, body) ==
  LET cleaned == clean_ai_json(ai_raw)
      loaded == JsonLoads(cleaned, body)
      parsed == IF loaded.ok THEN loaded.val ELSE PyDict(StPlaceholder(name))
  IN IF parsed.t # "dict"
     \* parsed.get raises AttributeError
     THEN [raised |-> TRUE]
     ELSE [raised |-> FALSE, rec |-> StBackfill(parsed.v, name)]

(***************************************************************************)
(* Ranking: results.sort(key=..., reverse=True).                           *)
(***************************************************************************)
\* the sort key: x.get("MatchPercentage", 0)
SortKey(x) == Get(x, "MatchPercentage", PyInt(0)).v

Reverse(s) == [k \in 1..Len(s) |-> s[Len(s) + 1 - k]]

RECURSIVE InsertAfterEqual(_, _)
\* x put into the ascending list s, behind the elements of an equal key
InsertAfterEqual(s, x) ==
  IF s = <<>> THEN <<x>>
  ELSE IF SortKey(x) < SortKey(Head(s)) THEN <<x>> \o s
  ELSE <<Head(s)>> \o InsertAfterEqual(Tail(s), x)

RECURSIVE SortAscending(_)
\* list.sort: stable, ascending by key
SortAscending(s) ==
  IF s = <<>> THEN <<>>
  ELSE InsertAfterEqual(SortAscending(SubSeq(s, 1, Len(s) - 1)), s[Len(s)])

\* a plausible slip: sort ascending, then reverse, which turns ties around
SortThenReverse(s) == Reverse(SortAscending(s))

\* list.sort(reverse=True): the list is reversed, sorted ascending and stable,
\* and reversed again, so that equal keys keep their order
SortReverse(s) == Reverse(SortAscending(Reverse(s)))

(***************************************************************************)
(* The inputs the model draws.                                             *)
(***************************************************************************)
RECURSIVE SeqsUpTo(_, _)
\* the sequences over S of length at most n
SeqsUpTo(S, n) ==
  IF n = 0 THEN {<<>>}
  ELSE LET shorter == SeqsUpTo(S, n - 1)
       IN shorter \cup {Append(q, x) : q \in shorter, x \in S}

Letters == <<"a", "b", "c", "d", "e", "f">>

\* the names of the file uploaded at position k: none, a PDF, an executable
NamesAt(k) == {<<>>, <<Letters[k], ".pdf">>, <<Letters[k], ".exe">>}

Sizes == {max_size, max_size + 1}

\* a document of one page of text, one of two blank pages, one unreadable
Docs == {[ok |-> TRUE, parts |-> <<<<"t">>>>],
         [ok |-> TRUE, parts |-> <<<<" ">>, <<" ">>>>],
         [ok |-> FALSE, parts |-> <<<<"t">>, <<"t">>>>]}

FilesAt(k) == [name : NamesAt(k), size : Sizes, doc : Docs]

RECURSIVE Batches(_)
\* the batches of n files
Batches(n) ==
  IF n = 0 THEN {<<>>}
  ELSE {Append(b, f) : b \in Batches(n - 1), f \in FilesAt(n)}

AllBatches == UNION {Batches(n) : n \in 0..MaxFiles}

JdTexts == {PyStr(<<>>), PyStr(<<" ">>), PyStr(<<"j">>)}

\* a typical answer's members, with the given name and score
Body(name, pct) ==
  [EmptyDict EXCEPT !["Name"] = name,
                    !["MatchPercentage"] = pct,
                    !["GlobalMatch"] = PyStr(<<"Top 20%">>),
                    !["MarketTier"] = PyStr(<<"Tier 2 (Strong)">>),
                    !["MatchedKeywords"] = PyList(<<<<"python">>>>),
                    !["MissingKeywords"] = PyList(<<<<"go">>>>),
                    !["Summary"] = PyStr(<<"Good fit.">>)]

ObjectText == <<"{", "B", "}">>

\* the answers of the service in a batch
BatchAnswers ==
  {Failure,
   Answer(ObjectText, Body(PyStr(<<"Bob">>), PyInt(50))),
   Answer(ObjectText, Body(PyStr(<<"Bob">>), PyInt(80))),
   Answer(<<"42">>, EmptyDict),
   Answer(<<"c">>, EmptyDict)}

(***************************************************************************)
(* The request.                                                            *)
(***************************************************************************)
Start ==
  /\ pc = "submitted"
  /\ idx = 1
  /\ results = <<>>
  /\ collected = <<>>
  /\ calls = <<>>
  /\ extracted = {}
  /\ jdWarning = FALSE
  /\ outcome = "none"

Init ==
  /\ frontend \in {"flask", "streamlit"}
  /\ jd \in IF frontend = "flask" THEN JdTexts \cup {None} ELSE JdTexts
  /\ apiKey \in IF frontend = "flask" THEN {TRUE} ELSE BOOLEAN
  /\ files \in AllBatches
  /\ Start

\* a plausible slip: "and" for "or"
FlaskInputsMissingBoth(j, fs) == ~Truthy(j) /\ fs = <<>>

\* app.py: "if not jd or not files"
FlaskInputsMissing(j, fs) == ~Truthy(j) \/ fs = <<>>

\* app.py analyze: the validation of the request
FlaskValidate ==
  /\ frontend = "flask"
  /\ pc = "submitted"
  /\ IF FlaskInputsMissing(jd, files)
     THEN pc' = "finished" /\ outcome' = "validation_error"
     ELSE pc' = "loop" /\ outcome' = outcome
  /\ UNCHANGED <<inputs, idx, results, collected, calls, extracted, jdWarning>>

\* app.py analyze: one pass of "for file in files"
FlaskFile(answers) ==
  /\ frontend = "flask"
  /\ pc = "loop"
  /\ idx <= Len(files)
  /\ LET file == files[idx]
         text == extract_text_from_pdf(file.doc)
     IN IF file.name = <<>>
        THEN /\ idx' = idx + 1
             /\ UNCHANGED <<pc, results, collected, calls, extracted, outcome>>
        ELSE IF FlaskNoText(text)
        THEN /\ idx' = idx + 1
             /\ extracted' = extracted \cup {idx}
             /\ UNCHANGED <<pc, results, collected, calls, outcome>>
        ELSE \E resp \in answers :
               LET ai_response == FlaskGetGeminiResponse(resp)
                   n == FlaskNormalize(file.name, ai_response, resp.body)
               IN /\ extracted' = extracted \cup {idx}
                  /\ calls' = Append(calls, [file |-> idx,
                                             failed |-> resp.fail,
                                             raw |-> ai_response,
                                             body |-> resp.body])
                  /\ IF n.raised
                     \* except Exception: the error payload, status 500
                     THEN /\ pc' = "finished"
                          /\ outcome' = "server_error"
                          /\ UNCHANGED <<idx, results, collected>>
                     ELSE /\ results' = Append(results, n.rec)
                          /\ collected' = Append(collected, n.rec)
                          /\ idx' = idx + 1
                          /\ UNCHANGED <<pc, outcome>>
  /\ UNCHANGED <<inputs, jdWarning>>

\* app.py analyze: the sort and the return of the results
FlaskReturn ==
  /\ frontend = "flask"
  /\ pc = "loop"
  /\ idx > Len(files)
  /\ results' = SortReverse(results)
  /\ outcome' = "success"
  /\ pc' = "finished"
  /\ UNCHANGED <<inputs, idx, collected, calls, extracted, jdWarning>>

\* streamlit.py: "if not jd or not jd.strip()"
StNoJd(j) == ~Truthy(j) \/ Strip(j.v) = <<>>

\* streamlit.py run_btn handler: the checks before the loop
StValidate ==
  /\ frontend = "streamlit"
  /\ pc = "submitted"
  /\ IF files = <<>>
     THEN pc' = "finished" /\ outcome' = "validation_error"
          /\ jdWarning' = jdWarning
     ELSE pc' = "loop" /\ outcome' = outcome /\ jdWarning' = StNoJd(jd)
  /\ UNCHANGED <<inputs, idx, results, collected, calls, extracted>>

\* streamlit.py run_btn handler: one pass of "for uploaded in uploaded_files"
StFile(answers) ==
  /\ frontend = "streamlit"
  /\ pc = "loop"
  /\ idx <= Len(files)
  /\ LET uploaded == files[idx]
         name == uploaded.name
         text == StExtract(uploaded)
     IN IF uploaded.size > max_size
        THEN /\ idx' = idx + 1
             /\ UNCHANGED <<pc, results, collected, calls, extracted, outcome>>
        ELSE IF ~StSupported(name)
        THEN /\ idx' = idx + 1
             /\ UNCHANGED <<pc, results, collected, calls, extracted, outcome>>
        ELSE IF StNoText(text)
        THEN /\ idx' = idx + 1
             /\ extracted' = extracted \cup {idx}
             /\ UNCHANGED <<pc, results, collected, calls, outcome>>
        ELSE \E resp \in IF apiKey THEN answers ELSE {Failure} :
               LET ai_raw == StGetGeminiResponse(apiKey, resp)
                   n == StNormalize(name, ai_raw, resp.body)
               IN /\ extracted' = extracted \cup {idx}
                  /\ calls' = Append(calls, [file |-> idx,
                                             failed |-> ~apiKey \/ resp.fail,
                                             raw |-> ai_raw,
                                             body |-> resp.body])
                  /\ IF n.raised
                     \* the exception leaves the script: nothing is displayed
                     THEN /\ pc' = "finished"
                          /\ outcome' = "crashed"
                          /\ UNCHANGED <<idx, results, collected>>
                     ELSE /\ results' = Append(results, n.rec)
                          /\ collected' = Append(collected, n.rec)
                          /\ idx' = idx + 1
                          /\ UNCHANGED <<pc, outcome>>
  /\ UNCHANGED <<inputs, jdWarning>>

\* streamlit.py run_btn handler: "if not results", the sort and the display
StFinish ==
  /\ frontend = "streamlit"
  /\ pc = "loop"
  /\ idx > Len(files)
  /\ IF results = <<>>
     THEN results' = results /\ outcome' = "no_results"
     ELSE results' = SortReverse(results) /\ outcome' = "success"
  /\ pc' = "finished"
  /\ UNCHANGED <<inputs, idx, collected, calls, extracted, jdWarning>>

Next ==
  \/ FlaskValidate
  \/ FlaskFile(BatchAnswers)
  \/ FlaskReturn
  \/ StValidate
  \/ StFile(BatchAnswers)
  \/ StFinish

Spec == Init /\ [][Next]_vars

(***************************************************************************)
(* One file and every answer: the same handlers, started on a batch of one *)
(* readable file, with the answer drawn from all short token sequences and *)
(* from objects of every shape of name, filename and score.                *)
(***************************************************************************)
Tokens == {"{", "}", "B", "c", " ", "FENCE"}

RawTexts ==
  SeqsUpTo(Tokens, MaxRawLen)
    \cup {<<"42">>, <<"null">>, <<"[1]">>,
          <<"FENCEJSON", "\n", "{", "B", "}", "\n", "FENCE">>}

PctChars == {"8", "5", ".", "-", "%", " ", "x"}

PctStrings ==
  SeqsUpTo(PctChars, MaxPctLen)
    \cup {<<"8", "5", "%">>, <<"8", "5", ".", "5", "%">>, <<"1", "5", "0">>}

PctValues ==
  {Absent, None, PyBool(TRUE), PyList(<<>>),
   PyInt(-5), PyInt(0), PyInt(85), PyInt(150),
   PyFloat(845), PyFloat(850), PyFloat(855), PyFloat(-5)}
    \cup {PyStr(str) : str \in PctStrings}

NameValues == {Absent, None, PyStr(<<>>), CandidateName, PyStr(<<"Bob">>)}

FilenameValues == {Absent, PyStr(<<"evil.pdf">>)}

\* the other members: as instructed, all missing, or present and empty
OtherMembers ==
  {Body(Absent, Absent),
   EmptyDict,
   [EmptyDict EXCEPT !["GlobalMatch"] = PyStr(<<>>),
                     !["MarketTier"] = PyStr(<<>>),
                     !["MatchedKeywords"] = PyList(<<>>),
                     !["MissingKeywords"] = PyList(<<>>),
                     !["Summary"] = PyStr(<<>>)]}

RichBodies ==
  {[o EXCEPT !["Name"] = n, !["Filename"] = f, !["MatchPercentage"] = PyInt(60)] :
     o \in OtherMembers, n \in NameValues, f \in FilenameValues}
    \cup {Body(PyStr(<<"Bob">>), p) : p \in PctValues}

RichAnswers ==
  {Failure}
    \cup {Answer(text, Body(CandidateName, PyInt(60))) : text \in RawTexts}
    \cup {Answer(ObjectText, b) : b \in RichBodies}

OneFiles ==
  [name : {<<"john", ".pdf">>, <<"A", ".DOCX">>},
   size : {max_size},
   doc : {[ok |-> TRUE, parts |-> <<<<"t">>, <<"t">>>>]}]

InitOne ==
  /\ frontend \in {"flask", "streamlit"}
  /\ jd = PyStr(<<"j">>)
  /\ apiKey \in IF frontend = "flask" THEN {TRUE} ELSE BOOLEAN
  /\ files \in {<<f>> : f \in OneFiles}
  /\ Start

NextOne ==
  \/ FlaskValidate
  \/ FlaskFile(RichAnswers)
  \/ FlaskReturn
  \/ StValidate
  \/ StFile(RichAnswers)
  \/ StFinish

SpecNormalize == InitOne /\ [][NextOne]_vars

(***************************************************************************)
(* What the properties speak of.                                           *)
(***************************************************************************)
Finished == pc = "finished"

\* the text the front end's extractor returns for the file at position k
TextOf(k) ==
  IF frontend = "flask" THEN extract_text_from_pdf(files[k].doc)
  ELSE StExtract(files[k])

\* the file a record stands for: its Filename, or its Name when it has none
FileOf(rec) ==
  IF rec["Filename"] # Absent THEN rec["Filename"].v ELSE rec["Name"].v

\* how many records of the results stand for the file at position k
RecordsOf(k) ==
  Cardinality({j \in 1..Len(results) : FileOf(results[j]) = files[k].name})

\* the parse candidate the front end cuts out of a text
Candidate(text) ==
  IF frontend = "flask" THEN FlaskClean(text) ELSE clean_ai_json(text)

\* what json.loads makes of the candidate of the k-th call
Loaded(k) == JsonLoads(Candidate(calls[k].raw), calls[k].body)

ParsedObject(k) == Loaded(k).ok /\ Loaded(k).val.t = "dict"

\* the name of the file of the k-th call
CallName(k) == files[calls[k].file].name

\* the k-th call has a record: each call appends one unless it raises
HasRecord(k) == k <= Len(collected)

Perms(n) ==
  {p \in [1..n -> 1..n] : \A a, b \in 1..n : a # b => p[a] # p[b]}

\* C1: when the batch finishes, whatever the answers were, no exception has
\* ended it, every file that was read and has text (other than blanks) has
\* exactly one record, and a file that was not read or has no text has none.
C1_OneRecordPerFileWithText ==
  (Finished /\ outcome # "validation_error") =>
    /\ outcome \in {"success", "no_results"}
    /\ \A k \in 1..Len(files) :
         /\ (k \in extracted /\ Strip(TextOf(k)) # <<>>) => RecordsOf(k) = 1
         /\ (k \notin extracted \/ TextOf(k) = <<>>) => RecordsOf(k) = 0

\* C2: the list handed back is the collected records rearranged, scores
\* descending, records of an equal score in the order of their files.
C2_RankedStable ==
  outcome = "success" =>
    /\ Len(results) = Len(collected)
    /\ \E p \in Perms(Len(results)) :
         /\ \A a \in 1..Len(results) : results[a] = collected[p[a]]
         /\ \A a, b \in 1..Len(results) :
              a < b =>
                \/ SortKey(results[a]) > SortKey(results[b])
                \/ /\ SortKey(results[a]) = SortKey(results[b])
                   /\ p[a] < p[b]

C2_Witness ==
  /\ outcome = "success"
  /\ Len(results) >= 2
  /\ SortKey(results[1]) = SortKey(results[2])
  /\ results[1] # results[2]

\* the value a number or a numeric string stands for, as num / den: an
\* optional "-", digits, an optional "." and digits, an optional final "%"
Numeric(val) ==
  IF val.t = "int" THEN [ok |-> TRUE, num |-> val.v, den |-> 1]
  ELSE IF val.t = "float" THEN [ok |-> TRUE, num |-> val.v, den |-> 10]
  ELSE IF val.t # "str" THEN [ok |-> FALSE]
  ELSE LET s0 == val.v
           s1 == IF s0 # <<>> /\ s0[Len(s0)] = "%"
                 THEN SubSeq(s0, 1, Len(s0) - 1) ELSE s0
           neg == s1 # <<>> /\ Head(s1) = "-"
           s2 == IF neg THEN Tail(s1) ELSE s1
           dot == FirstDot(s2)
           whole == IF dot = 0 THEN s2 ELSE SubSeq(s2, 1, dot - 1)
           frac == IF dot = 0 THEN <<>> ELSE SubSeq(s2, dot + 1, Len(s2))
       IN IF IsDigit(whole) /\ (dot = 0 \/ IsDigit(frac))
          THEN [ok |-> TRUE,
                num |-> (IF neg THEN -1 ELSE 1) * IntOfDigits(whole \o frac),
                den |-> Pow10(Len(frac))]
          ELSE [ok |-> FALSE]

\* a value that is no number: missing, null, a boolean, a list, or a string
\* with no digit in it
NonNumeric(val) ==
  \/ val.t \in {"absent", "none", "bool", "list"}
  \/ val.t = "str" /\ \A k \in 1..Len(val.v) : val.v[k] \notin Digits

\* n is an integer nearest to num / den
Nearest(n, num, den) == 2 * Abs(n * den - num) <= den

\* C3: the score of a record made from a parsed object is an integer: the
\* raw value rounded to the nearest integer when it is a number or a numeric
\* string (with or without a final "%"), and 0 when it is no number.
C3_ScoreIsRoundedInteger ==
  \A k \in 1..Len(calls) :
    (ParsedObject(k) /\ HasRecord(k)) =>
      LET raw == Loaded(k).val.v["MatchPercentage"]
          got == collected[k]["MatchPercentage"]
      IN /\ got.t = "int"
         /\ Numeric(raw).ok => Nearest(got.v, Numeric(raw).num, Numeric(raw).den)
         /\ NonNumeric(raw) => got.v = 0

\* C4: an answer whose candidate does not parse gives the placeholder: the
\* file's name, score 0, "N/A", the fixed parsing-error summary, both keyword
\* lists present and empty; and the batch goes on.
C4_ParseFailurePlaceholder ==
  \A k \in 1..Len(calls) :
    ~Loaded(k).ok =>
      /\ HasRecord(k)
      /\ collected[k]["Name"] = PyStr(CallName(k))
      /\ collected[k]["MatchPercentage"] = PyInt(0)
      /\ collected[k]["GlobalMatch"] = NA
      /\ collected[k]["Summary"] \in {ParseErrorFlask, ParseErrorSt}
      /\ collected[k]["MatchedKeywords"] = PyList(<<>>)
      /\ collected[k]["MissingKeywords"] = PyList(<<>>)

\* C5, as claimed: a failed LLM call (or a missing key) gives the file a
\* record of score 0 with a summary that is not empty.
C5_FailureHasSummary ==
  \A k \in 1..Len(calls) :
    calls[k].failed =>
      /\ HasRecord(k)
      /\ collected[k]["MatchPercentage"] = PyInt(0)
      /\ collected[k]["Summary"].t = "str"
      /\ collected[k]["Summary"].v # <<>>

\* C5, amended: a failed LLM call (or a missing key) does not end the batch;
\* its output is the text of the empty object, and the file gets a record of
\* score 0 under the file's name whose summary is missing or empty.
C5_FailureGivesBlankRecord ==
  \A k \in 1..Len(calls) :
    calls[k].failed =>
      /\ calls[k].raw = EmptyObjectText
      /\ HasRecord(k)
      /\ collected[k]["Name"] = PyStr(CallName(k))
      /\ collected[k]["MatchPercentage"] = PyInt(0)
      /\ collected[k]["Summary"] \in {Absent, PyStr(<<>>)}

C5_Witness ==
  /\ outcome = "success"
  /\ Len(calls) = 2
  /\ calls[1].failed
  /\ ~calls[2].failed
  /\ SortKey(collected[2]) > 0

\* C6: the name of a record made from a parsed object is the file's name when
\* the parsed name is missing, empty or "Candidate Name", and the parsed name
\* otherwise; its filename is the file's name whatever the answer held.
C6_NameAndFilenameBackfill ==
  \A k \in 1..Len(calls) :
    (ParsedObject(k) /\ HasRecord(k)) =>
      LET name == Loaded(k).val.v["Name"]
      IN /\ name \in {Absent, PyStr(<<>>), CandidateName}
              => collected[k]["Name"] = PyStr(CallName(k))
         /\ (name.t = "str" /\ name \notin {PyStr(<<>>), CandidateName})
              => collected[k]["Name"] = name
         /\ collected[k]["Filename"] = PyStr(CallName(k))

\* the text of one JSON object: the braces around its members, or around none
IsObjectText(text) ==
  /\ Len(text) >= 2
  /\ Head(text) = "{"
  /\ text[Len(text)] = "}"
  /\ Remove(Remove(text, " "), "\n") \in {EmptyObjectText, ObjectText}

\* commentary: characters, blanks, fence markers and stray braces, but no
\* JSON value and no pair of braces of its own
IsCommentary(text) ==
  /\ \A k \in 1..Len(text) :
       text[k] \in {"c", " ", "\n", "FENCE", "FENCEJSON", "{", "}"}
  /\ ~\E i, j \in 1..Len(text) : i < j /\ text[i] = "{" /\ text[j] = "}"

\* the record (or the exception) the front end makes of a text for a file
Normalized(name, text, body) ==
  IF frontend = "flask" THEN FlaskNormalize(name, text, body)
  ELSE StNormalize(name, text, body)

\* the k-th call's answer is lead, object, trail and is handled as the bare
\* object is: the candidate is the object and the record is the object's
SelectsObject(k, i, j) ==
  LET raw == calls[k].raw
      obj == SubSeq(raw, i, j)
      bare == Normalized(CallName(k), obj, calls[k].body)
  IN /\ Candidate(raw) = obj
     /\ ~bare.raised
     /\ HasRecord(k)
     /\ collected[k] = bare.rec

Wrapped(k, i, j) ==
  LET raw == calls[k].raw
  IN /\ ~calls[k].failed
     /\ IsCommentary(SubSeq(raw, 1, i - 1))
     /\ IsObjectText(SubSeq(raw, i, j))
     /\ IsCommentary(SubSeq(raw, j + 1, Len(raw)))

\* C7, as claimed: an answer that is one JSON object inside any commentary,
\* braces in the commentary included, is handled as the bare object is.
C7_AnyCommentary ==
  \A k \in 1..Len(calls) :
    \A i, j \in 1..Len(calls[k].raw) :
      Wrapped(k, i, j) => SelectsObject(k, i, j)

\* C7, amended: an answer that is one JSON object inside commentary with no
\* "{" before the object and no "}" behind it is handled as the bare object
\* is: the candidate is exactly the object.
C7_BraceFreeCommentary ==
  \A k \in 1..Len(calls) :
    \A i, j \in 1..Len(calls[k].raw) :
      ( /\ Wrapped(k, i, j)
        /\ \A a \in 1..(i - 1) : calls[k].raw[a] # "{"
        /\ \A b \in (j + 1)..Len(calls[k].raw) : calls[k].raw[b] # "}" )
        => SelectsObject(k, i, j)

C7_Witness ==
  /\ Finished
  /\ Len(calls) = 1
  /\ \E i, j \in 1..Len(calls[1].raw) :
       /\ Wrapped(1, i, j)
       /\ i > 1
       /\ j < Len(calls[1].raw)
       /\ calls[1].raw[1] = "}"
       /\ calls[1].raw[Len(calls[1].raw)] = "{"
       /\ SelectsObject(1, i, j)

\* no per-file step has happened and the request ends in the validation error
ShortCircuited ==
  /\ pc # "loop"
  /\ calls = <<>>
  /\ extracted = {}
  /\ results = <<>>
  /\ Finished => outcome = "validation_error"

\* C8, as claimed: a batch with no job description or with no files ends in
\* the validation error before any per-file step.
C8_MissingInputsShortCircuit ==
  (~Truthy(jd) \/ files = <<>>) => ShortCircuited

\* C8, amended: a batch with no files, or in the Flask front end with no job
\* description, ends in the validation error before any per-file step; the
\* Streamlit front end only warns of a missing job description and goes on.
C8_MissingInputsPerFrontEnd ==
  /\ (files = <<>> \/ (frontend = "flask" /\ ~Truthy(jd))) => ShortCircuited
  /\ (frontend = "streamlit" /\ ~Truthy(jd) /\ files # <<>> /\ pc # "submitted")
       => (jdWarning /\ outcome # "validation_error")

C8_Witness ==
  /\ frontend = "flask"
  /\ ~Truthy(jd)
  /\ files # <<>>
  /\ Finished
  /\ outcome = "validation_error"

\* the file at position k passes the three checks
Eligible(k) ==
  /\ files[k].name # <<>>
  /\ files[k].size <= max_size
  /\ Strip(TextOf(k)) # <<>>

\* C9: the LLM is called for a file, and a record made for it, only if the
\* file has a name, is no larger than 10 MiB and has text other than blanks.
C9_OnlyEligibleFilesProcessed ==
  /\ \A k \in 1..Len(calls) : Eligible(calls[k].file)
  /\ \A k \in 1..Len(files) : RecordsOf(k) > 0 => Eligible(k)

\* C10: a batch that leaves the results empty does not end in success.
C10_EmptyResultsNotSuccess ==
  (Finished /\ results = <<>>) => outcome # "success"

====
